---- MODULE Spec2Model ----
(***************************************************************************)
(* The tiered access gateway of workers/quantum-api-worker.mjs: key        *)
(* classification (getApiKeyTier), per-key rate limiting over three        *)
(* windows (checkRateLimit), the capability gate (canUseRealHardware) and  *)
(* the request handlers of the worker's fetch() that compose them.         *)
(*                                                                         *)
(* JavaScript values are modelled as follows.                              *)
(*   - a string is the tuple of its characters, so that startsWith and     *)
(*     length are computed; a string-or-null value is [isNull, s];         *)
(*   - Infinity is the sentinel Infinity, undefined the sentinel           *)
(*     Undefined; >= and - on them are JsGeq and JsSub;                    *)
(*   - Number.prototype.toString() yields a [kind, n] record.              *)
(* A handler is an async function: it runs without interruption up to its  *)
(* next await, where other handlers may run.                               *)
(***************************************************************************)
EXTENDS Integers, Sequences, FiniteSets, TLC

\* ------------------------------------------------------------------ bounds

\* Requests that arrive in one behaviour.
MaxRequests == 3

\* Clock advances in one behaviour.
MaxTicks == 1

\* Requests that arrive in one behaviour of SpecRoutes.
MaxRouteRequests == 1

\* Requests that arrive in one behaviour of SpecQuota.
MaxQuotaRequests == 3

\* Clock advances in one behaviour of SpecQuota.
MaxQuotaTicks == 2

\* Clock advances in one behaviour of SpecLive.
MaxLiveTicks == 2

\* ----------------------------------------------------------- JS primitives

Infinity == -1

Undefined == -2

Null == [isNull |-> TRUE, s |-> <<>>]

Str(s) == [isNull |-> FALSE, s |-> s]

\* !v for a string-or-null value: null and '' are falsy.
Falsy(v) == v.isNull \/ Len(v.s) = 0

startsWith(str, prefix) ==
  /\ Len(str) >= Len(prefix)
  /\ SubSeq(str, 1, Len(prefix)) = prefix

\* a >= b for a finite a and a finite or infinite b.
JsGeq(a, b) == IF b = Infinity THEN FALSE ELSE a >= b

\* a - b for a finite or infinite a and a finite b.
JsSub(a, b) == IF a = Infinity THEN Infinity ELSE a - b

EmptyString == [kind |-> "empty", n |-> 0]

AbsentHeader == [kind |-> "absent", n |-> 0]

\* x.toString() for a number.
toString(x) ==
  IF x = Infinity THEN [kind |-> "Infinity", n |-> 0] ELSE [kind |-> "num", n |-> x]

\* x?.toString() || dflt
toStringOr(x, dflt) ==
  IF x = Undefined THEN dflt ELSE toString(x)

\* ------------------------------------------------------------------- tiers

FreePrefix == <<"f", "r", "e", "e", "_">>

ProPrefix == <<"p", "r", "o", "_">>

EntPrefix == <<"e", "n", "t", "_">>

FreeTier ==
  [name |-> "Free", requestsPerDay |-> 100, requestsPerHour |-> 10,
   requestsPerMinute |-> 2, allowRealHardware |-> FALSE, allowAllProtocols |-> TRUE]

ProTier ==
  [name |-> "Pro", requestsPerDay |-> 10000, requestsPerHour |-> 1000,
   requestsPerMinute |-> 100, allowRealHardware |-> TRUE, allowAllProtocols |-> TRUE]

EnterpriseTier ==
  [name |-> "Enterprise", requestsPerDay |-> Infinity, requestsPerHour |-> Infinity,
   requestsPerMinute |-> Infinity, allowRealHardware |-> TRUE, allowAllProtocols |-> TRUE]

\* The value null where a tier is expected.
NullTier ==
  [name |-> "null", requestsPerDay |-> 0, requestsPerHour |-> 0,
   requestsPerMinute |-> 0, allowRealHardware |-> FALSE, allowAllProtocols |-> FALSE]

API_KEY_TIERS ==
  [p \in {FreePrefix, ProPrefix, EntPrefix} |->
     IF p = FreePrefix THEN FreeTier
     ELSE IF p = ProPrefix THEN ProTier
     ELSE EnterpriseTier]

\* getApiKeyTier without its 'ent_' branch.
getApiKeyTierNoEnt(apiKey) ==
  IF Falsy(apiKey) THEN NullTier
  ELSE IF startsWith(apiKey.s, FreePrefix) THEN API_KEY_TIERS[FreePrefix]
  ELSE IF startsWith(apiKey.s, ProPrefix) THEN API_KEY_TIERS[ProPrefix]
  ELSE API_KEY_TIERS[FreePrefix]

getApiKeyTier(apiKey) ==
  IF Falsy(apiKey) THEN NullTier
  ELSE IF startsWith(apiKey.s, FreePrefix) THEN API_KEY_TIERS[FreePrefix]
  ELSE IF startsWith(apiKey.s, ProPrefix) THEN API_KEY_TIERS[ProPrefix]
  ELSE IF startsWith(apiKey.s, EntPrefix) THEN API_KEY_TIERS[EntPrefix]
  ELSE API_KEY_TIERS[FreePrefix]

\* ------------------------------------------------------------ rate limiter

dayMs == 24 * 60 * 60 * 1000

hourMs == 60 * 60 * 1000

minuteMs == 60 * 1000

Windows == {"day", "hour", "minute"}

Duration(w) == IF w = "day" THEN dayMs ELSE IF w = "hour" THEN hourMs ELSE minuteMs

\* The tier's limit for a window.
LimitOf(tier, w) ==
  IF w = "day" THEN tier.requestsPerDay
  ELSE IF w = "hour" THEN tier.requestsPerHour
  ELSE tier.requestsPerMinute

\* The entry created for a key on its first request.
NewEntry(now) ==
  [day |-> [count |-> 0, resetTime |-> now + dayMs],
   hour |-> [count |-> 0, resetTime |-> now + hourMs],
   minute |-> [count |-> 0, resetTime |-> now + minuteMs]]

\* No reset: a window whose time has passed keeps its count.
ResetWindowNever(win, now, ms) == win

\* A reset that advances resetTime from its previous value.
ResetWindowFromPrevious(win, now, ms) ==
  IF now >= win.resetTime THEN [count |-> 0, resetTime |-> win.resetTime + ms] ELSE win

\* A reset that moves the window and carries the count over.
ResetWindowCarry(win, now, ms) ==
  IF now >= win.resetTime THEN [count |-> win.count, resetTime |-> now + ms] ELSE win

\* if (now >= limits.w.resetTime) limits.w = { count: 0, resetTime: now + wMs }
ResetWindow(win, now, ms) ==
  IF now >= win.resetTime THEN [count |-> 0, resetTime |-> now + ms] ELSE win

\* The check with > for >=.
ExceededOffByOne(limit, count) == limit # Infinity /\ count > limit

\* tier.requestsPerW !== Infinity && limits.w.count >= tier.requestsPerW
Exceeded(limit, count) == limit # Infinity /\ JsGeq(count, limit)

\* The increments without limits.day.count++.
IncrementSkipsDay(limits) ==
  [w \in Windows |->
     IF w = "day" THEN limits[w] ELSE [limits[w] EXCEPT !.count = @ + 1]]

\* The increments without limits.minute.count++.
IncrementSkipsMinute(limits) ==
  [w \in Windows |->
     IF w = "minute" THEN limits[w] ELSE [limits[w] EXCEPT !.count = @ + 1]]

\* limits.day.count++; limits.hour.count++; limits.minute.count++
Increment(limits) ==
  [w \in Windows |-> [limits[w] EXCEPT !.count = @ + 1]]

BlockedResult(reason, limit, resetTime) ==
  [allowed |-> FALSE, reason |-> reason, limit |-> limit, resetTime |-> resetTime,
   remaining |-> Undefined]

AllowedResult(remaining) ==
  [allowed |-> TRUE, reason |-> "", limit |-> Undefined, resetTime |-> Undefined,
   remaining |-> remaining]

\* A store that keeps one entry for all keys.
StorePutShared(store, apiKey, entry) ==
  [k \in DOMAIN store \cup {apiKey} |-> entry]

\* rateLimitStore[apiKey] = entry
StorePut(store, apiKey, entry) ==
  [k \in DOMAIN store \cup {apiKey} |-> IF k = apiKey THEN entry ELSE store[k]]

\* rateLimitStore is a plain object ({}): a key that names a property of
\* Object.prototype reads as that inherited (truthy) value, so no entry is
\* created for it and limits.day is undefined.
ObjectPrototypeKeys == {<<"c", "o", "n", "s", "t", "r", "u", "c", "t", "o", "r">>}

\* The checks in the order minute, hour, day.
BlockerMinuteFirst(tier, limits) ==
  IF tier.requestsPerMinute # Infinity /\ limits.minute.count >= tier.requestsPerMinute
  THEN "minute"
  ELSE IF tier.requestsPerHour # Infinity /\ limits.hour.count >= tier.requestsPerHour
  THEN "hour"
  ELSE IF tier.requestsPerDay # Infinity /\ limits.day.count >= tier.requestsPerDay
  THEN "day"
  ELSE "none"

\* The checks without the minute check.
BlockerNoMinute(tier, limits) ==
  IF tier.requestsPerDay # Infinity /\ limits.day.count >= tier.requestsPerDay
  THEN "day"
  ELSE IF tier.requestsPerHour # Infinity /\ limits.hour.count >= tier.requestsPerHour
  THEN "hour"
  ELSE "none"

\* The first window, in the order day, hour, minute, whose check returns
\* early; "none" when the call goes on to the increments.
Blocker(tier, limits) ==
  IF Exceeded(tier.requestsPerDay, limits.day.count) THEN "day"
  ELSE IF Exceeded(tier.requestsPerHour, limits.hour.count) THEN "hour"
  ELSE IF Exceeded(tier.requestsPerMinute, limits.minute.count) THEN "minute"
  ELSE "none"

Reason(w) ==
  IF w = "day" THEN "Daily rate limit exceeded"
  ELSE IF w = "hour" THEN "Hourly rate limit exceeded"
  ELSE "Rate limit exceeded"

\* The increments placed before the checks' returns.
ConsumeAlways(limits, blocker) ==
  [w \in Windows |-> [limits[w] EXCEPT !.count = @ + 1]]

\* The entry the call leaves: the increments run only when no check returned.
Consume(limits, blocker) ==
  IF blocker = "none" THEN Increment(limits) ELSE limits

\* remaining computed from the day count before the increment.
RemainingBeforeIncrement(tier, limits) ==
  IF tier.requestsPerDay = Infinity THEN Infinity
  ELSE tier.requestsPerDay - (limits.day.count - 1)

\* remaining: tier.requestsPerDay - limits.day.count, after the increments.
Remaining(tier, limits) == JsSub(tier.requestsPerDay, limits.day.count)

\* checkRateLimit(apiKey, tier) at Date.now() = now on the store: the store it
\* leaves, the value it returns, and whether it threw instead (a TypeError on
\* limits.day.resetTime).
checkRateLimit(store, apiKey, tier, now) ==
  IF tier = NullTier
  THEN [store |-> store, threw |-> FALSE,
        result |-> BlockedResult("Invalid API key", Undefined, Undefined)]
  ELSE IF apiKey \notin DOMAIN store /\ apiKey \in ObjectPrototypeKeys
  THEN [store |-> store, threw |-> TRUE,
        result |-> BlockedResult("TypeError", Undefined, Undefined)]
  ELSE
    LET entry == IF apiKey \in DOMAIN store THEN store[apiKey] ELSE NewEntry(now)
        limits == [w \in Windows |-> ResetWindow(entry[w], now, Duration(w))]
        blocker == Blocker(tier, limits)
        left == Consume(limits, blocker)
    IN [store |-> StorePut(store, apiKey, left), threw |-> FALSE,
        result |->
          IF blocker # "none"
          THEN BlockedResult(Reason(blocker), LimitOf(tier, blocker),
                             limits[blocker].resetTime)
          ELSE AllowedResult(Remaining(tier, left))]

\* ------------------------------------------------------------- responses

NoHeaders ==
  [XRateLimitLimit |-> AbsentHeader, XRateLimitRemaining |-> AbsentHeader,
   XRateLimitReset |-> AbsentHeader, XAPITier |-> "(absent)"]

\* An error text; the 429 text also carries the limit and the reset time.
Msg(text) == [text |-> text, limit |-> Undefined, resetTime |-> Undefined]

RateMsg(reason, limit, resetTime) ==
  [text |-> reason, limit |-> limit, resetTime |-> resetTime]

NoMsg == Msg("")

jsonResponse(data, status, headers) ==
  [status |-> status, data |-> data, headers |-> headers]

errorResponse(message, code, status) ==
  jsonResponse([error |-> message, code |-> code, hardware |-> "undefined"],
               status, NoHeaders)

\* The body of a 200 response: only its hardware field is modelled.
Result(hardware) == [error |-> NoMsg, code |-> "", hardware |-> hardware]

NoResponse == jsonResponse(Result("undefined"), 0, NoHeaders)

\* ------------------------------------------------------------- validation

\* request.headers.get('X-API-Key')
HeadersGet(request) == request.apiKey

validateApiKey(request) ==
  LET apiKey == HeadersGet(request)
  IN IF Falsy(apiKey) \/ Len(apiKey.s) = 0
     THEN [valid |-> FALSE, error |-> "Missing API key", tier |-> NullTier,
           apiKey |-> Null]
     ELSE LET tier == getApiKeyTier(apiKey)
          IN IF tier = NullTier
             THEN [valid |-> FALSE, error |-> "Invalid API key format",
                   tier |-> NullTier, apiKey |-> Null]
             ELSE [valid |-> TRUE, error |-> "", tier |-> tier, apiKey |-> apiKey]

NoRateLimit == BlockedResult("", Undefined, Undefined)

\* The rate-limit check whose block does not end the request: the handler goes
\* on to its body and its capability check.
RateCheckedIgnoresBlock(store, keyValidation, now) ==
  LET rl == checkRateLimit(store, keyValidation.apiKey.s, keyValidation.tier, now)
      rateLimit == rl.result
  IN [store |-> rl.store, checked |-> TRUE, threw |-> rl.threw,
      valid |-> ~rl.threw, error |-> NoResponse,
      tier |-> keyValidation.tier, apiKey |-> keyValidation.apiKey,
      rateLimit |-> rateLimit, headers |-> NoHeaders]

\* validateRequest from its rate-limit check on, for a key that validateApiKey
\* accepted.
RateChecked(store, keyValidation, now) ==
  LET rl == checkRateLimit(store, keyValidation.apiKey.s, keyValidation.tier, now)
      rateLimit == rl.result
  IN IF rl.threw
     THEN [store |-> rl.store, checked |-> TRUE, threw |-> TRUE,
           valid |-> FALSE, error |-> NoResponse,
           tier |-> keyValidation.tier, apiKey |-> keyValidation.apiKey,
           rateLimit |-> rateLimit, headers |-> NoHeaders]
     ELSE IF ~rateLimit.allowed
     THEN [store |-> rl.store, checked |-> TRUE, threw |-> FALSE,
           valid |-> FALSE,
           error |-> errorResponse(
                       RateMsg(rateLimit.reason, rateLimit.limit,
                               rateLimit.resetTime),
                       "RATE_LIMIT_EXCEEDED", 429),
           tier |-> keyValidation.tier, apiKey |-> keyValidation.apiKey,
           rateLimit |-> rateLimit, headers |-> NoHeaders]
     ELSE [store |-> rl.store, checked |-> TRUE, threw |-> FALSE,
           valid |-> TRUE, error |-> NoResponse,
           tier |-> keyValidation.tier, apiKey |-> keyValidation.apiKey,
           rateLimit |-> rateLimit,
           headers |->
             [XRateLimitLimit |-> toString(keyValidation.tier.requestsPerDay),
              XRateLimitRemaining |->
                toStringOr(rateLimit.remaining, toString(0)),
              XRateLimitReset |-> toStringOr(rateLimit.resetTime, EmptyString),
              XAPITier |-> keyValidation.tier.name]]

\* validateRequest without the return on an invalid key.
validateRequestNoKeyCheck(store, request, now) ==
  RateChecked(store, validateApiKey(request), now)

\* validateRequest keeping an entry for the requests it rejects with 401.
validateRequestCountsRejected(store, request, now) ==
  LET keyValidation == validateApiKey(request)
  IN IF ~keyValidation.valid
     THEN [store |-> StorePut(store, <<>>, NewEntry(now)), checked |-> FALSE,
           threw |-> FALSE, valid |-> FALSE,
           error |-> errorResponse(Msg(keyValidation.error), "INVALID_API_KEY", 401),
           tier |-> NullTier, apiKey |-> Null, rateLimit |-> NoRateLimit,
           headers |-> NoHeaders]
     ELSE RateChecked(store, keyValidation, now)

\* validateRequest(request) at Date.now() = now on the store: the store it
\* leaves, the value it resolves to, whether it called checkRateLimit and
\* whether it rejected (checkRateLimit threw).
validateRequest(store, request, now) ==
  LET keyValidation == validateApiKey(request)
  IN IF ~keyValidation.valid
     THEN [store |-> store, checked |-> FALSE, threw |-> FALSE,
           valid |-> FALSE,
           error |-> errorResponse(Msg(keyValidation.error), "INVALID_API_KEY", 401),
           tier |-> NullTier, apiKey |-> Null, rateLimit |-> NoRateLimit,
           headers |-> NoHeaders]
     ELSE RateChecked(store, keyValidation, now)

\* The capability check answering false for every tier.
canUseRealHardwareNever(tier, requestBody) == FALSE

\* The capability check answering true for every tier.
canUseRealHardwareAlways(tier, requestBody) == TRUE

canUseRealHardware(tier, requestBody) ==
  IF tier = NullTier THEN FALSE
  ELSE IF tier.allowRealHardware THEN TRUE
  ELSE LET useReal == requestBody.use_real_hardware \/ requestBody.useRealHardware
       IN IF useReal /\ ~tier.allowRealHardware THEN FALSE ELSE TRUE

\* ---------------------------------------------------------------- handlers

\* The parsed request body: json is FALSE when request.json() throws or yields
\* null, so that the handler's catch answers; an absent flag reads as FALSE.
Bodies ==
  { [json |-> FALSE, use_real_hardware |-> FALSE, useRealHardware |-> FALSE],
    [json |-> TRUE, use_real_hardware |-> FALSE, useRealHardware |-> FALSE],
    [json |-> TRUE, use_real_hardware |-> TRUE, useRealHardware |-> FALSE],
    [json |-> TRUE, use_real_hardware |-> FALSE, useRealHardware |-> TRUE] }

NoBody == [json |-> FALSE, use_real_hardware |-> FALSE, useRealHardware |-> FALSE]

InvalidParameters ==
  errorResponse(Msg("Invalid request body"), "INVALID_PARAMETERS", 400)

HardwareAccessDenied ==
  errorResponse(Msg("Real hardware access requires Pro or Enterprise tier"),
                "HARDWARE_ACCESS_DENIED", 403)

Bool(b) == IF b THEN "true" ELSE "false"

\* handleBellPair running the simulator before its capability check, with the
\* flag as requested.
handleBellPairSimFirst(validation, body) ==
  IF ~body.json THEN [response |-> InvalidParameters, sim |-> "none"]
  ELSE LET requestedRealHardware == body.use_real_hardware
       IN IF requestedRealHardware /\ ~canUseRealHardware(validation.tier, body)
          THEN [response |-> HardwareAccessDenied, sim |-> "simulateBellPair"]
          ELSE [response |-> jsonResponse(Result(Bool(requestedRealHardware)), 200,
                                          validation.headers),
                sim |-> "simulateBellPair"]

\* handleBellPair after its validation passed and request.json() settled:
\* the response, and the simulator it ran.
handleBellPair(validation, body) ==
  IF ~body.json THEN [response |-> InvalidParameters, sim |-> "none"]
  ELSE LET requestedRealHardware == body.use_real_hardware
           useRealHardware ==
             canUseRealHardware(validation.tier, body) /\ requestedRealHardware
       IN IF requestedRealHardware /\ ~useRealHardware
          THEN [response |-> HardwareAccessDenied, sim |-> "none"]
          ELSE [response |-> jsonResponse(Result(Bool(useRealHardware)), 200,
                                          validation.headers),
                sim |-> "simulateBellPair"]

handleBB84(validation, body) ==
  IF ~body.json THEN [response |-> InvalidParameters, sim |-> "none"]
  ELSE LET requestedRealHardware == body.use_real_hardware
           useRealHardware ==
             canUseRealHardware(validation.tier, body) /\ requestedRealHardware
       IN IF requestedRealHardware /\ ~useRealHardware
          THEN [response |-> HardwareAccessDenied, sim |-> "none"]
          ELSE [response |-> jsonResponse(Result(Bool(useRealHardware)), 200,
                                          validation.headers),
                sim |-> "simulateQKD"]

\* handleCHSH, handleE91, handleSARG04, handleBBM92 and the ratchet, ssc and
\* p2p handlers: no capability check; the result has no hardware field.
handleUngated(validation, body, sim) ==
  IF ~body.json THEN [response |-> InvalidParameters, sim |-> "none"]
  ELSE [response |-> jsonResponse(Result("undefined"), 200, validation.headers),
        sim |-> sim]

\* The routes of fetch() that test validateApiKey(request) inline: the value
\* tested is the object validateApiKey returns, and an object is truthy.
ToBooleanOfObject(object) == TRUE

\* !validateApiKey(request)
InlineKeyRejected(request) == ~ToBooleanOfObject(validateApiKey(request))

handleInline(body) ==
  IF ~body.json THEN [response |-> InvalidParameters, sim |-> "none"]
  ELSE [response |-> jsonResponse(Result("undefined"), 200, NoHeaders),
        sim |-> "none"]

GatedPaths == {"/v1/quantum/bridge/bell-pair", "/v1/quantum/protocols/bb84"}

UngatedPaths ==
  {"/v1/quantum/bridge/chsh", "/v1/quantum/protocols/e91",
   "/v1/quantum/protocols/sarg04", "/v1/quantum/protocols/bbm92",
   "/v1/quantum/ratchet/init", "/v1/quantum/ratchet/encrypt",
   "/v1/quantum/ratchet/decrypt", "/v1/quantum/ssc/mint",
   "/v1/quantum/p2p/connect", "/v1/quantum/p2p/send"}

InlinePaths ==
  {"/v1/quantum/ratchet/rotate", "/v1/quantum/p2p/swarm/join",
   "/v1/quantum/p2p/swarm/leave", "/v1/quantum/ssc/transfer",
   "/v1/quantum/ssc/stake"}

\* Routes that check no key (GET).
OpenPaths == {"/v1/ping"}

ValidatedPaths == GatedPaths \cup UngatedPaths

\* The simulator an ungated handler runs.
SimulatorOf(path) ==
  IF path = "/v1/quantum/bridge/chsh" THEN "simulateCHSH"
  ELSE IF path \in {"/v1/quantum/protocols/e91", "/v1/quantum/protocols/bbm92"}
  THEN "simulateE91"
  ELSE IF path = "/v1/quantum/protocols/sarg04" THEN "simulateQKD"
  ELSE "none"

\* fetch()'s dispatch of a validated route to its handler.
Dispatch(path, validation, body) ==
  IF path = "/v1/quantum/bridge/bell-pair" THEN handleBellPair(validation, body)
  ELSE IF path = "/v1/quantum/protocols/bb84" THEN handleBB84(validation, body)
  ELSE handleUngated(validation, body, SimulatorOf(path))

\* fetch()'s catch: a handler that rejected.
InternalError == errorResponse(Msg("TypeError"), "INTERNAL_ERROR", 500)

\* ------------------------------------------------------------------- state

FreeKey == FreePrefix \o <<"a">>

ProKey == ProPrefix \o <<"a">>

EntKey == EntPrefix \o <<"a">>

\* 'invalid_key', the key of the test "Invalid API key format rejected".
OtherKey == <<"i", "n", "v", "a", "l", "i", "d", "_", "k", "e", "y">>

ProtoKey == <<"c", "o", "n", "s", "t", "r", "u", "c", "t", "o", "r">>

\* The X-API-Key header of a request: absent, empty, or a key.
HeaderValues ==
  {Null, Str(<<>>), Str(FreeKey), Str(ProKey), Str(EntKey), Str(OtherKey),
   Str(ProtoKey)}

Paths == ValidatedPaths \cup InlinePaths \cup OpenPaths

Handlers == {1, 2}

\* Date.now() when the model starts.
T0 == 2 * dayMs

\* The steps by which the clock advances.
TickSteps == {minuteMs, hourMs, dayMs}

Window(count, resetTime) == [count |-> count, resetTime |-> resetTime]

Entry(day, hour, minute) == [day |-> day, hour |-> hour, minute |-> minute]

EmptyStore == [k \in {} |-> NewEntry(T0)]

\* Stores the worker can hold at T0 after earlier traffic.
\* WarmStore: every key one request short of all its limits; the day window
\* began 22 h ago, the hour window 59 min ago, the minute window 30 s ago.
WarmStore ==
  [k \in {FreeKey, ProKey, EntKey} |->
     IF k = FreeKey
     THEN Entry(Window(99, T0 + 2 * hourMs), Window(9, T0 + minuteMs),
                Window(1, T0 + 30000))
     ELSE IF k = ProKey
     THEN Entry(Window(9999, T0 + 2 * hourMs), Window(999, T0 + minuteMs),
                Window(99, T0 + 30000))
     ELSE Entry(Window(20000, T0 + 2 * hourMs), Window(2000, T0 + minuteMs),
                Window(200, T0 + 30000))]

\* EdgeStore: the Free key with its minute window full, one request short of
\* the hour limit and with room in the day; the Pro key one request short of
\* the day limit while the hour has room and the minute window has expired.
EdgeStore ==
  [k \in {FreeKey, ProKey} |->
     IF k = FreeKey
     THEN Entry(Window(49, T0 + 12 * hourMs), Window(9, T0 + 30 * minuteMs),
                Window(2, T0 + 30000))
     ELSE Entry(Window(9999, T0 + hourMs), Window(3, T0 + 30 * minuteMs),
                Window(2, T0 - minuteMs))]

InitStores == {EmptyStore, WarmStore, EdgeStore}

NoEntry == Entry(Window(0, 0), Window(0, 0), Window(0, 0))

NoRequest == [apiKey |-> Null, path |-> ""]

NoValidation ==
  [checked |-> FALSE, threw |-> FALSE, valid |-> FALSE, error |-> NoResponse,
   tier |-> NullTier, apiKey |-> Null, rateLimit |-> NoRateLimit,
   headers |-> NoHeaders]

Idle ==
  [pc |-> "idle", request |-> NoRequest, validation |-> NoValidation,
   entryAfter |-> NoEntry, body |-> NoBody, response |-> NoResponse,
   sim |-> "none"]

VARIABLES
  now,            \* Date.now()
  rateLimitStore, \* apiKey -> { day, hour, minute }, each { count, resetTime }
  handler,        \* per handler: where it is, its request and what it produced
  arrived,        \* requests that have arrived
  ticks           \* clock advances made

vars == <<now, rateLimitStore, handler, arrived, ticks>>

Init ==
  /\ now = T0
  /\ rateLimitStore \in InitStores
  /\ handler = [hd \in Handlers |-> Idle]
  /\ arrived = 0
  /\ ticks = 0

\* The fields of validateRequest's value that the handler keeps.
Kept(v) ==
  [checked |-> v.checked, threw |-> v.threw, valid |-> v.valid, error |-> v.error,
   tier |-> v.tier, apiKey |-> v.apiKey, rateLimit |-> v.rateLimit,
   headers |-> v.headers]

\* A request goes to the first handler that runs none.
Free(hd) ==
  /\ handler[hd].pc \in {"idle", "done"}
  /\ \A other \in Handlers : other < hd => handler[other].pc \notin {"idle", "done"}

\* A request for a handler that begins with `await validateRequest(request)`
\* arrives: validateRequest has no await of its own, so the key check and
\* checkRateLimit run in the arrival step; the handler then waits on the
\* promise.
ArriveValidated(hd, headers, paths, max) ==
  /\ Free(hd)
  /\ arrived < max
  /\ \E apiKey \in headers, path \in paths \cap ValidatedPaths :
       LET request == [apiKey |-> apiKey, path |-> path]
           v == validateRequest(rateLimitStore, request, now)
       IN /\ rateLimitStore' = v.store
          /\ handler' = [handler EXCEPT ![hd] =
               [Idle EXCEPT !.pc = "awaitValidation", !.request = request,
                            !.validation = Kept(v),
                            !.entryAfter =
                              IF v.checked /\ v.apiKey.s \in DOMAIN v.store
                              THEN v.store[v.apiKey.s] ELSE NoEntry]]
  /\ arrived' = arrived + 1
  /\ UNCHANGED <<now, ticks>>

\* A request for a route that tests validateApiKey inline arrives; the
\* handler answers 401 at once or waits on request.json().
ArriveInline(hd, headers, paths, max) ==
  /\ Free(hd)
  /\ arrived < max
  /\ \E apiKey \in headers, path \in paths \cap InlinePaths :
       LET request == [apiKey |-> apiKey, path |-> path]
       IN handler' = [handler EXCEPT ![hd] =
            IF InlineKeyRejected(request)
            THEN [Idle EXCEPT !.pc = "done", !.request = request,
                              !.response =
                                errorResponse(Msg("Invalid or missing API key"),
                                              "INVALID_API_KEY", 401)]
            ELSE [Idle EXCEPT !.pc = "awaitJson", !.request = request]]
  /\ arrived' = arrived + 1
  /\ UNCHANGED <<now, rateLimitStore, ticks>>

\* A request for a route without key check arrives and is answered.
ArriveOpen(hd, headers, paths, max) ==
  /\ Free(hd)
  /\ arrived < max
  /\ \E apiKey \in headers, path \in paths \cap OpenPaths :
       handler' = [handler EXCEPT ![hd] =
         [Idle EXCEPT !.pc = "done",
                      !.request = [apiKey |-> apiKey, path |-> path],
                      !.response = jsonResponse(Result("undefined"), 200, NoHeaders)]]
  /\ arrived' = arrived + 1
  /\ UNCHANGED <<now, rateLimitStore, ticks>>

\* The handler resumes after `await validateRequest(request)`.
ResumeValidation(hd) ==
  /\ handler[hd].pc = "awaitValidation"
  /\ handler' = [handler EXCEPT ![hd] =
       IF handler[hd].validation.threw
       THEN [@ EXCEPT !.pc = "done", !.response = InternalError]
       ELSE IF ~handler[hd].validation.valid
       THEN [@ EXCEPT !.pc = "done", !.response = handler[hd].validation.error]
       ELSE [@ EXCEPT !.pc = "awaitJson"]]
  /\ UNCHANGED <<now, rateLimitStore, arrived, ticks>>

\* The handler resumes after `await request.json()` and answers.
ResumeJson(hd, bodies) ==
  /\ handler[hd].pc = "awaitJson"
  /\ \E body \in bodies :
       LET path == handler[hd].request.path
           out == IF path \in InlinePaths THEN handleInline(body)
                  ELSE Dispatch(path, handler[hd].validation, body)
       IN handler' = [handler EXCEPT ![hd] =
            [@ EXCEPT !.pc = "done", !.body = body, !.response = out.response,
                      !.sim = out.sim]]
  /\ UNCHANGED <<now, rateLimitStore, arrived, ticks>>

\* Time passes.
Tick ==
  /\ ticks < MaxTicks
  /\ \E d \in TickSteps : now' = now + d
  /\ ticks' = ticks + 1
  /\ UNCHANGED <<rateLimitStore, handler, arrived>>

\* ---------------------------------------------------------- specifications

\* Spec: concurrent traffic to the bell-pair route under a clock.
ClockHeaders == {Str(FreeKey), Str(ProKey), Str(EntKey)}

ClockPaths == {"/v1/quantum/bridge/bell-pair"}

ClockBodies == {b \in Bodies : b.json /\ ~b.useRealHardware}

Next ==
  \/ \E hd \in Handlers : ArriveValidated(hd, ClockHeaders, ClockPaths, MaxRequests)
  \/ \E hd \in Handlers : ResumeValidation(hd)
  \/ \E hd \in Handlers : ResumeJson(hd, ClockBodies)
  \/ Tick

Spec == Init /\ [][Next]_vars

\* SpecRoutes: every route, header and body, at one instant.
NextRoutes ==
  \/ \E hd \in Handlers : ArriveValidated(hd, HeaderValues, Paths, MaxRouteRequests)
  \/ \E hd \in Handlers : ArriveInline(hd, HeaderValues, Paths, MaxRouteRequests)
  \/ \E hd \in Handlers : ArriveOpen(hd, HeaderValues, Paths, MaxRouteRequests)
  \/ \E hd \in Handlers : ResumeValidation(hd)
  \/ \E hd \in Handlers : ResumeJson(hd, Bodies)

SpecRoutes == Init /\ [][NextRoutes]_vars

\* SpecQuota: traffic of keys that have used up a window, to a validated and
\* to an inline route, under a clock that advances by half minutes.
QuotaHeaders == {Str(FreeKey), Str(ProKey)}

QuotaPaths == {"/v1/quantum/bridge/bell-pair", "/v1/quantum/ratchet/rotate"}

QuotaSteps == {30000, minuteMs}

\* LateMinuteStore: the Free key's hour window, begun 59.5 min ago, is full;
\* its tenth request came with the ninth in a minute window begun 15 s ago,
\* which is full too and ends 15 s after the hour window.
LateMinuteStore ==
  [k \in {FreeKey} |->
     Entry(Window(50, T0 + 12 * hourMs), Window(10, T0 + 30000),
           Window(2, T0 + 45000))]

\* FullDayStore: WarmStore after one more request of the Free and of the Pro
\* key: all their windows are full.
FullDayStore ==
  [k \in {FreeKey, ProKey} |->
     IF k = FreeKey
     THEN Entry(Window(100, T0 + 2 * hourMs), Window(10, T0 + minuteMs),
                Window(2, T0 + 30000))
     ELSE Entry(Window(10000, T0 + 2 * hourMs), Window(1000, T0 + minuteMs),
                Window(100, T0 + 30000))]

\* HourEndStore: the Free key's hour window, begun an hour ago with five
\* requests in it, ends now; the fifth request opened a minute window 30 s ago.
HourEndStore ==
  [k \in {FreeKey} |->
     Entry(Window(50, T0 + 12 * hourMs), Window(5, T0), Window(1, T0 + 30000))]

QuotaStores == {LateMinuteStore, FullDayStore, HourEndStore}

InitQuota ==
  /\ now = T0
  /\ rateLimitStore \in QuotaStores
  /\ handler = [hd \in Handlers |-> Idle]
  /\ arrived = 0
  /\ ticks = 0

\* Time passes by one of the given steps.
Advance(steps, max) ==
  /\ ticks < max
  /\ \E d \in steps : now' = now + d
  /\ ticks' = ticks + 1
  /\ UNCHANGED <<rateLimitStore, handler, arrived>>

NextQuota ==
  \/ \E hd \in Handlers : ArriveValidated(hd, QuotaHeaders, QuotaPaths, MaxQuotaRequests)
  \/ \E hd \in Handlers : ArriveInline(hd, QuotaHeaders, QuotaPaths, MaxQuotaRequests)
  \/ \E hd \in Handlers : ResumeValidation(hd)
  \/ \E hd \in Handlers : ResumeJson(hd, ClockBodies)
  \/ Advance(QuotaSteps, MaxQuotaTicks)

SpecQuota == InitQuota /\ [][NextQuota]_vars

\* SpecLive: a Free key that keeps sending requests to the bell-pair route
\* while the clock keeps advancing, an hour at a time, up to MaxLiveTicks
\* hours after T0. Requests are not counted: the key never stops.
LiveHeaders == {Str(FreeKey)}

LiveSteps == {hourMs}

\* ArriveValidated for a client that sends without end.
Retry(hd, headers, paths) ==
  /\ Free(hd)
  /\ \E apiKey \in headers, path \in paths \cap ValidatedPaths :
       \E v \in {validateRequest(rateLimitStore,
                                 [apiKey |-> apiKey, path |-> path], now)} :
          /\ rateLimitStore' = v.store
          /\ handler' = [handler EXCEPT ![hd] =
               [Idle EXCEPT !.pc = "awaitValidation",
                            !.request = [apiKey |-> apiKey, path |-> path],
                            !.validation = Kept(v),
                            !.entryAfter =
                              IF v.checked /\ v.apiKey.s \in DOMAIN v.store
                              THEN v.store[v.apiKey.s] ELSE NoEntry]]
  /\ UNCHANGED <<now, arrived, ticks>>

NextLive ==
  \/ \E hd \in Handlers : Retry(hd, LiveHeaders, ClockPaths)
  \/ \E hd \in Handlers : ResumeValidation(hd)
  \/ \E hd \in Handlers : ResumeJson(hd, ClockBodies)
  \/ Advance(LiveSteps, MaxLiveTicks)

\* A step of the worker or of its client: a suspended handler resumes, or the
\* next request arrives.
Serve ==
  \/ \E hd \in Handlers : ResumeValidation(hd)
  \/ \E hd \in Handlers : ResumeJson(hd, ClockBodies)
  \/ \E hd \in Handlers : Retry(hd, LiveHeaders, ClockPaths)

\* The runtime keeps resuming the handlers it suspended and the key keeps
\* sending (a handler that answered takes the next request), and time keeps
\* advancing up to the horizon.
FairLive ==
  /\ WF_vars(Serve)
  /\ WF_vars(Advance(LiveSteps, MaxLiveTicks))

SpecLive == InitQuota /\ [][NextLive]_vars /\ FairLive

\* ------------------------------------------------------------------ claims

\* A handler whose request reached checkRateLimit and got a value back.
Checked(hd) ==
  /\ handler[hd].pc # "idle"
  /\ handler[hd].validation.checked
  /\ ~handler[hd].validation.threw

KeyOf(hd) == handler[hd].request.apiKey.s

Allowed(hd) == handler[hd].validation.rateLimit.allowed

FiniteTier(tier) ==
  /\ tier # NullTier
  /\ \A w \in Windows : LimitOf(tier, w) # Infinity

\* The count the handler's checkRateLimit call found in window w, after the
\* resets: the count the call left, less this request's own increment.
PreCount(hd, w) ==
  handler[hd].entryAfter[w].count - (IF Allowed(hd) THEN 1 ELSE 0)

\* The step in which handler hd's request arrives and is validated.
Arrives(hd) ==
  /\ handler'[hd] # handler[hd]
  /\ handler'[hd].pc = "awaitValidation"

\* The count of window w of key k that a call at `now` finds after the resets.
PostReset(k, w) ==
  IF k \notin DOMAIN rateLimitStore THEN 0
  ELSE IF now >= rateLimitStore[k][w].resetTime THEN 0
  ELSE rateLimitStore[k][w].count

\* C1: in every reachable state, each window of each key of a finite tier
\* (Free, Pro) has 0 <= count <= the tier's limit for that window, and a call
\* that found count >= limit in some window was not allowed.
C1_CountWithinLimit ==
  /\ \A k \in DOMAIN rateLimitStore : \A w \in Windows :
       LET limit == LimitOf(getApiKeyTier(Str(k)), w)
       IN limit # Infinity =>
            /\ 0 <= rateLimitStore[k][w].count
            /\ rateLimitStore[k][w].count <= limit
  /\ \A hd \in Handlers :
       Checked(hd) /\ FiniteTier(getApiKeyTier(Str(KeyOf(hd)))) =>
         \A w \in Windows :
           PreCount(hd, w) >= LimitOf(getApiKeyTier(Str(KeyOf(hd))), w)
             => ~Allowed(hd)

\* The Free key's hour window and the Pro key's day window are full, and a
\* request of the Pro key has been blocked.
C1_Witness ==
  /\ FreeKey \in DOMAIN rateLimitStore
  /\ ProKey \in DOMAIN rateLimitStore
  /\ rateLimitStore[FreeKey].hour.count = 10
  /\ rateLimitStore[ProKey].day.count = 10000
  /\ \E hd \in Handlers : Checked(hd) /\ KeyOf(hd) = ProKey /\ ~Allowed(hd)

\* C2: of two handlers that hold requests of the same key of a finite tier,
\* admitted in the same instance of a window, no two took the same slot; when
\* both found at most one slot left in it, at most one was allowed; and a
\* request that was not allowed is answered 429 RATE_LIMIT_EXCEEDED.
C2_OneSlotOneWinner ==
  \A hd1 \in Handlers : \A hd2 \in Handlers \ {hd1} :
    (/\ Checked(hd1) /\ Checked(hd2)
     /\ KeyOf(hd1) = KeyOf(hd2)
     /\ FiniteTier(getApiKeyTier(Str(KeyOf(hd1)))))
    =>
    /\ \A w \in Windows :
         handler[hd1].entryAfter[w].resetTime = handler[hd2].entryAfter[w].resetTime
         =>
         LET limit == LimitOf(getApiKeyTier(Str(KeyOf(hd1))), w)
         IN /\ Allowed(hd1) /\ Allowed(hd2) =>
                 handler[hd1].entryAfter[w].count # handler[hd2].entryAfter[w].count
            /\ PreCount(hd1, w) >= limit - 1 /\ PreCount(hd2, w) >= limit - 1 =>
                 ~(Allowed(hd1) /\ Allowed(hd2))
    /\ ~Allowed(hd1) =>
         /\ handler[hd1].validation.error.status = 429
         /\ handler[hd1].validation.error.data.code = "RATE_LIMIT_EXCEEDED"

\* Two requests of one key are in flight at once; the first took the last
\* slot of a window and the second, arriving in the same window, was blocked.
C2_Witness ==
  \E hd1 \in Handlers : \E hd2 \in Handlers \ {hd1} : \E w \in Windows :
    /\ handler[hd1].pc = "awaitJson"
    /\ handler[hd2].pc = "awaitValidation"
    /\ Checked(hd1) /\ Checked(hd2)
    /\ KeyOf(hd1) = FreeKey /\ KeyOf(hd2) = FreeKey
    /\ handler[hd1].entryAfter[w].resetTime = handler[hd2].entryAfter[w].resetTime
    /\ Allowed(hd1) /\ PreCount(hd1, w) = LimitOf(FreeTier, w) - 1
    /\ ~Allowed(hd2)
    /\ handler[hd2].validation.error.status = 429

C4_MissingKey ==
  [][\A hd \in Handlers :
       (/\ handler'[hd] # handler[hd]
        /\ handler'[hd].request.path \in ValidatedPaths
        /\ Falsy(handler'[hd].request.apiKey))
       =>
       /\ rateLimitStore' = rateLimitStore
       /\ ~handler'[hd].validation.checked
       /\ handler'[hd].pc \in {"awaitValidation", "done"}
       /\ handler'[hd].pc = "done" =>
            /\ handler'[hd].response.status = 401
            /\ handler'[hd].response.data.code = "INVALID_API_KEY"]_vars

\* A request with an empty X-API-Key to a validated route has been answered.
C4_Witness ==
  \E hd \in Handlers :
    /\ handler[hd].pc = "done"
    /\ handler[hd].request.apiKey = Str(<<>>)
    /\ handler[hd].request.path \in ValidatedPaths
    /\ handler[hd].response.status = 401

\* C5: every POST route that checks the API key inline answers a request
\* whose X-API-Key is absent or empty with 401 INVALID_API_KEY.
C5_InlineMissingKeyRejected ==
  \A hd \in Handlers :
    (/\ handler[hd].pc = "done"
     /\ handler[hd].request.path \in InlinePaths
     /\ Falsy(handler[hd].request.apiKey))
    =>
    /\ handler[hd].response.status = 401
    /\ handler[hd].response.data.code = "INVALID_API_KEY"

\* C6: a request of a finite tier is allowed exactly when every window has
\* room, whatever room the other windows have; one that only the minute
\* window blocks reports the minute limit and the minute window's resetTime
\* (for a fresh Free key: the third request inside one minute, limit 2).
C6_WindowIndependence ==
  \A hd \in Handlers :
    LET tier == getApiKeyTier(Str(KeyOf(hd)))
    IN Checked(hd) /\ FiniteTier(tier) =>
         /\ Allowed(hd) <=> \A w \in Windows : PreCount(hd, w) < LimitOf(tier, w)
         /\ (/\ PreCount(hd, "minute") >= tier.requestsPerMinute
             /\ PreCount(hd, "hour") < tier.requestsPerHour
             /\ PreCount(hd, "day") < tier.requestsPerDay)
            =>
            /\ ~Allowed(hd)
            /\ handler[hd].validation.rateLimit.limit = tier.requestsPerMinute
            /\ handler[hd].validation.rateLimit.resetTime =
                 handler[hd].entryAfter.minute.resetTime
            /\ tier = FreeTier => handler[hd].validation.rateLimit.limit = 2

\* The third request of a Free key without history, in the minute of its
\* first, was blocked with limit 2 while day and hour stand at 2.
C6_Witness ==
  \E hd \in Handlers :
    /\ Checked(hd) /\ ~Allowed(hd)
    /\ KeyOf(hd) = FreeKey
    /\ handler[hd].validation.rateLimit.limit = 2
    /\ handler[hd].entryAfter.minute.count = 2
    /\ handler[hd].entryAfter.hour.count = 2
    /\ handler[hd].entryAfter.day.count = 2
    /\ handler[hd].entryAfter.day.resetTime =
         handler[hd].entryAfter.minute.resetTime + 86400000 - 60000
    /\ handler[hd].validation.rateLimit.resetTime =
         handler[hd].entryAfter.minute.resetTime

\* C7: a request of a finite-tier key whose minute window is full, arriving
\* at now >= minute.resetTime while day and hour have room, is allowed and
\* leaves minute.count = 1 and minute.resetTime = now + 60000.
C7_MinuteReset ==
  [][\A hd \in Handlers :
       LET k == handler'[hd].request.apiKey.s
           tier == getApiKeyTier(Str(k))
       IN (/\ Arrives(hd)
           /\ FiniteTier(tier)
           /\ k \in DOMAIN rateLimitStore
           /\ rateLimitStore[k].minute.count >= tier.requestsPerMinute
           /\ now >= rateLimitStore[k].minute.resetTime
           /\ PostReset(k, "hour") < tier.requestsPerHour
           /\ PostReset(k, "day") < tier.requestsPerDay)
          =>
          /\ handler'[hd].validation.rateLimit.allowed
          /\ rateLimitStore'[k].minute.count = 1
          /\ rateLimitStore'[k].minute.resetTime = now + 60000]_vars

\* A request of the Free key was blocked by the minute window, and a later
\* one, at or after the reported reset time, was allowed with minute.count 1.
C7_Witness ==
  \E hd1 \in Handlers : \E hd2 \in Handlers \ {hd1} :
    /\ Checked(hd1) /\ Checked(hd2)
    /\ KeyOf(hd1) = FreeKey /\ KeyOf(hd2) = FreeKey
    /\ ~Allowed(hd1)
    /\ handler[hd1].validation.rateLimit.reason = "Rate limit exceeded"
    /\ Allowed(hd2)
    /\ handler[hd2].entryAfter.minute.count = 1
    /\ handler[hd2].entryAfter.minute.resetTime >=
         handler[hd1].validation.rateLimit.resetTime + 60000

\* C8: a request of an 'ent_' key is never blocked, and its call leaves each
\* of the three counters one above the count it found after the resets.
C8_EnterpriseNeverBlocked ==
  [][\A hd \in Handlers :
       LET k == handler'[hd].request.apiKey.s
       IN Arrives(hd) /\ startsWith(k, EntPrefix) =>
            /\ handler'[hd].validation.checked
            /\ handler'[hd].validation.rateLimit.allowed
            /\ handler'[hd].validation.valid
            /\ \A w \in Windows :
                 rateLimitStore'[k][w].count = PostReset(k, w) + 1]_vars

\* An Enterprise key far above the Pro limits in all three windows was
\* allowed again.
C8_Witness ==
  \E hd \in Handlers :
    /\ Checked(hd) /\ Allowed(hd)
    /\ KeyOf(hd) = EntKey
    /\ handler[hd].entryAfter.minute.count > 200
    /\ handler[hd].entryAfter.hour.count > 2000
    /\ handler[hd].entryAfter.day.count > 20000

\* C9: a checkRateLimit call that returns allowed:false leaves no window's
\* count greater than it was before the call.
C9_BlockedConsumesNothing ==
  [][\A hd \in Handlers :
       LET k == handler'[hd].request.apiKey.s
       IN (/\ Arrives(hd)
           /\ handler'[hd].validation.checked
           /\ ~handler'[hd].validation.threw
           /\ ~handler'[hd].validation.rateLimit.allowed)
          =>
          \A w \in Windows :
            rateLimitStore'[k][w].count <=
              (IF k \in DOMAIN rateLimitStore THEN rateLimitStore[k][w].count ELSE 0)]_vars

\* A request was blocked by the hour window while the minute and the day
\* windows had room, and their counts stand where they stood.
C9_Witness ==
  \E hd \in Handlers :
    /\ Checked(hd) /\ ~Allowed(hd)
    /\ KeyOf(hd) = FreeKey
    /\ handler[hd].validation.rateLimit.limit = 10
    /\ handler[hd].entryAfter.minute.count = 1
    /\ handler[hd].entryAfter.day.count = 50
    /\ rateLimitStore[FreeKey] = handler[hd].entryAfter

\* C10: every 200 response of a handler that goes through validateRequest
\* carries X-API-Tier = the name of the key's tier, X-RateLimit-Limit = the
\* tier's requestsPerDay and X-RateLimit-Remaining = requestsPerDay minus the
\* key's day count right after this request's increment, which for a finite
\* tier lies in 0 .. requestsPerDay - 1.
C10_Headers ==
  \A hd \in Handlers :
    (/\ handler[hd].pc = "done"
     /\ handler[hd].request.path \in ValidatedPaths
     /\ handler[hd].response.status = 200)
    =>
    LET tier == getApiKeyTier(handler[hd].request.apiKey)
        h == handler[hd].response.headers
        dayCount == handler[hd].entryAfter.day.count
    IN /\ h.XAPITier = tier.name
       /\ IF tier.requestsPerDay = Infinity
          THEN /\ h.XRateLimitLimit = [kind |-> "Infinity", n |-> 0]
               /\ h.XRateLimitRemaining = [kind |-> "Infinity", n |-> 0]
          ELSE /\ h.XRateLimitLimit = [kind |-> "num", n |-> tier.requestsPerDay]
               /\ h.XRateLimitRemaining =
                    [kind |-> "num", n |-> tier.requestsPerDay - dayCount]
               /\ h.XRateLimitRemaining.n \in 0 .. (tier.requestsPerDay - 1)

\* The Free key's hundredth request of the day was answered 200 with
\* X-RateLimit-Remaining 0.
C10_Witness ==
  \E hd \in Handlers :
    /\ handler[hd].pc = "done"
    /\ handler[hd].request.apiKey = Str(FreeKey)
    /\ handler[hd].response.status = 200
    /\ handler[hd].response.headers.XRateLimitRemaining = [kind |-> "num", n |-> 0]
    /\ handler[hd].response.headers.XAPITier = "Free"

\* C11: an allowed request of a key of a finite tier, arriving while the
\* key's day window is open, reports an X-RateLimit-Remaining one below the
\* room the day window had, which is one below the value reported to the
\* last allowed request of that key in this day window, also when that
\* request's handler is still waiting at an await.
C11_RemainingDecreases ==
  [][\A hd \in Handlers :
       LET k == handler'[hd].request.apiKey.s
           tier == getApiKeyTier(Str(k))
       IN (/\ Arrives(hd)
           /\ FiniteTier(tier)
           /\ handler'[hd].validation.valid
           /\ k \in DOMAIN rateLimitStore
           /\ now < rateLimitStore[k].day.resetTime)
          =>
          /\ handler'[hd].validation.headers.XRateLimitRemaining =
               [kind |-> "num",
                n |-> tier.requestsPerDay - rateLimitStore[k].day.count - 1]
          /\ \A prev \in Handlers \ {hd} :
               (/\ Checked(prev) /\ Allowed(prev)
                /\ KeyOf(prev) = k
                /\ handler[prev].entryAfter.day = rateLimitStore[k].day)
               =>
               handler'[hd].validation.headers.XRateLimitRemaining.n =
                 handler[prev].validation.headers.XRateLimitRemaining.n - 1]_vars

\* Two allowed requests of the Free key are in flight in one day window, the
\* first still waiting on its body, and the second reports one less.
C11_Witness ==
  \E hd1 \in Handlers : \E hd2 \in Handlers \ {hd1} :
    /\ handler[hd1].pc = "awaitJson"
    /\ Checked(hd1) /\ Checked(hd2)
    /\ Allowed(hd1) /\ Allowed(hd2)
    /\ KeyOf(hd1) = FreeKey /\ KeyOf(hd2) = FreeKey
    /\ handler[hd1].entryAfter.day.resetTime = handler[hd2].entryAfter.day.resetTime
    /\ handler[hd2].validation.headers.XRateLimitRemaining.n =
         handler[hd1].validation.headers.XRateLimitRemaining.n - 1

\* C12: every 200 response of a handler that goes through validateRequest
\* carries an X-RateLimit-Reset whose value is the resetTime of the key's day
\* window.
C12_ResetHeader ==
  \A hd \in Handlers :
    (/\ handler[hd].pc = "done"
     /\ handler[hd].request.path \in ValidatedPaths
     /\ handler[hd].response.status = 200)
    =>
    handler[hd].response.headers.XRateLimitReset =
      toString(handler[hd].entryAfter.day.resetTime)

\* C13: every response to a request that presented an API key on a route
\* that goes through validateRequest (200, 429, 403 or 400) carries
\* X-RateLimit-Limit, X-RateLimit-Remaining, X-RateLimit-Reset and X-API-Tier.
C13_HeadersOnEveryResponse ==
  \A hd \in Handlers :
    (/\ handler[hd].pc = "done"
     /\ handler[hd].request.path \in ValidatedPaths
     /\ ~Falsy(handler[hd].request.apiKey)
     /\ handler[hd].response.status \in {200, 429, 403, 400})
    =>
    /\ handler[hd].response.headers.XRateLimitLimit # AbsentHeader
    /\ handler[hd].response.headers.XRateLimitRemaining # AbsentHeader
    /\ handler[hd].response.headers.XRateLimitReset # AbsentHeader
    /\ handler[hd].response.headers.XAPITier # NoHeaders.XAPITier

\* C14: getApiKeyTier yields no tier for a null or empty key, the tier of the
\* prefix for 'free_', 'pro_' and 'ent_' keys and Free for every other key;
\* and a request with a non-empty key is served: it is answered neither 401
\* nor 5xx.
C14_UnknownKeyServed ==
  /\ \A apiKey \in HeaderValues :
       getApiKeyTier(apiKey) =
         IF apiKey \in {Null, Str(<<>>)} THEN NullTier
         ELSE IF apiKey = Str(ProKey) THEN ProTier
         ELSE IF apiKey = Str(EntKey) THEN EnterpriseTier
         ELSE FreeTier
  /\ \A hd \in Handlers :
       (/\ handler[hd].pc = "done"
        /\ handler[hd].request.path \in ValidatedPaths
        /\ ~Falsy(handler[hd].request.apiKey))
       =>
       /\ handler[hd].response.status # 401
       /\ handler[hd].response.status < 500

\* C15: a step changes no window of a key other than the key of the request
\* that arrives in it, and the answer checkRateLimit gives a request is the
\* answer it gives on a store that holds that key's entry alone.
C15_KeysIndependent ==
  [][/\ \A k \in DOMAIN rateLimitStore :
          (\A hd \in Handlers :
             Arrives(hd) => handler'[hd].request.apiKey.s # k)
          =>
          /\ k \in DOMAIN rateLimitStore'
          /\ rateLimitStore'[k] = rateLimitStore[k]
     /\ \A hd \in Handlers :
          LET k == handler'[hd].request.apiKey.s
              own == [x \in {k} \cap DOMAIN rateLimitStore |-> rateLimitStore[x]]
          IN Arrives(hd) /\ handler'[hd].validation.checked =>
               handler'[hd].validation.rateLimit =
                 checkRateLimit(own, k, getApiKeyTier(Str(k)), now).result]_vars

\* A request of the Free key was blocked, a request of the Pro key that came
\* after it was allowed, and the Free key's entry stands as its request left
\* it.
C15_Witness ==
  \E hd1 \in Handlers : \E hd2 \in Handlers \ {hd1} :
    /\ handler[hd1].pc = "done" /\ handler[hd2].pc = "awaitValidation"
    /\ Checked(hd1) /\ Checked(hd2)
    /\ KeyOf(hd1) = FreeKey /\ ~Allowed(hd1)
    /\ KeyOf(hd2) = ProKey /\ Allowed(hd2)
    /\ rateLimitStore[FreeKey] = handler[hd1].entryAfter
    /\ rateLimitStore[ProKey] = handler[hd2].entryAfter

\* C16: on every route that requires an API key, a request of a Free-tier key
\* whose body has use_real_hardware: true, unless it is rate limited, is
\* answered 403 HARDWARE_ACCESS_DENIED and not with a 200 result.
C16_HardwareDeniedEverywhere ==
  \A hd \in Handlers :
    (/\ handler[hd].pc = "done"
     /\ handler[hd].request.path \in ValidatedPaths \cup InlinePaths
     /\ getApiKeyTier(handler[hd].request.apiKey) = FreeTier
     /\ handler[hd].body.json
     /\ handler[hd].body.use_real_hardware)
    =>
    /\ handler[hd].response.status = 403
    /\ handler[hd].response.data.code = "HARDWARE_ACCESS_DENIED"

C18_WaitUntilResetSuffices ==
  [][\A hd \in Handlers : \A prev \in Handlers :
       LET k == handler'[hd].request.apiKey.s
       IN (/\ Arrives(hd)
           /\ Checked(prev) /\ ~Allowed(prev)
           /\ KeyOf(prev) = k
           /\ k \in DOMAIN rateLimitStore
           /\ rateLimitStore[k] = handler[prev].entryAfter
           /\ now >= handler[prev].validation.rateLimit.resetTime)
          =>
          handler'[hd].validation.rateLimit.allowed]_vars

\* C19: a request to a route that checks the key, validated or inline, made
\* with a Free or Pro key whose day window is exhausted (day.count =
\* requestsPerDay and now < day.resetTime), is refused with 429
\* RATE_LIMIT_EXCEEDED.
C19_QuotaOnEveryRoute ==
  [][\A hd \in Handlers :
       LET k == handler'[hd].request.apiKey.s
           tier == getApiKeyTier(Str(k))
       IN (/\ handler[hd].pc \in {"idle", "done"}
           /\ handler'[hd] # handler[hd]
           /\ handler'[hd].request.path \in ValidatedPaths \cup InlinePaths
           /\ FiniteTier(tier)
           /\ k \in DOMAIN rateLimitStore
           /\ rateLimitStore[k].day.count = tier.requestsPerDay
           /\ now < rateLimitStore[k].day.resetTime)
          =>
          /\ handler'[hd].pc = "awaitValidation"
          /\ handler'[hd].validation.error.status = 429
          /\ handler'[hd].validation.error.data.code = "RATE_LIMIT_EXCEEDED"]_vars

\* C20: a blocked request of a finite tier reports the first window, in the
\* order day, hour, minute, whose count after the resets has reached its
\* limit: the result and the 429 body carry that window's limit and that
\* window's resetTime.
C20_FirstFullWindowReported ==
  \A hd \in Handlers :
    LET tier == getApiKeyTier(Str(KeyOf(hd)))
        full == {w \in Windows :
                   handler[hd].entryAfter[w].count >= LimitOf(tier, w)}
        first == IF "day" \in full THEN "day"
                 ELSE IF "hour" \in full THEN "hour" ELSE "minute"
        rateLimit == handler[hd].validation.rateLimit
        error == handler[hd].validation.error
    IN Checked(hd) /\ ~Allowed(hd) /\ FiniteTier(tier) =>
         /\ full # {}
         /\ rateLimit.reason =
              (IF first = "day" THEN "Daily rate limit exceeded"
               ELSE IF first = "hour" THEN "Hourly rate limit exceeded"
               ELSE "Rate limit exceeded")
         /\ rateLimit.limit = LimitOf(tier, first)
         /\ rateLimit.resetTime = handler[hd].entryAfter[first].resetTime
         /\ error.status = 429
         /\ error.data.error.limit = LimitOf(tier, first)
         /\ error.data.error.resetTime = handler[hd].entryAfter[first].resetTime

\* A request of the Free key found the hour and the minute window full, with
\* the minute window ending later, and was answered with the hour limit and
\* the hour window's reset time.
C20_Witness ==
  \E hd \in Handlers :
    /\ Checked(hd) /\ ~Allowed(hd)
    /\ KeyOf(hd) = FreeKey
    /\ handler[hd].entryAfter.day.count < 100
    /\ handler[hd].entryAfter.hour.count = 10
    /\ handler[hd].entryAfter.minute.count = 2
    /\ handler[hd].entryAfter.minute.resetTime > handler[hd].entryAfter.hour.resetTime
    /\ handler[hd].validation.error.data.error.limit = 10
    /\ handler[hd].validation.error.data.error.resetTime =
         handler[hd].entryAfter.hour.resetTime

\* The step in which handler hd's request arrives and checkRateLimit resets
\* window w of the request's key: the key has an entry and now has reached the
\* window's resetTime.
Resets(hd, w) ==
  LET k == handler'[hd].request.apiKey.s
  IN /\ Arrives(hd)
     /\ handler'[hd].validation.checked
     /\ ~handler'[hd].validation.threw
     /\ k \in DOMAIN rateLimitStore
     /\ now >= rateLimitStore[k][w].resetTime

\* C21 as stated: a reset at time now leaves the window's resetTime > now and
\* exactly one window duration above its previous value.
C21_ResetAdvancesByDuration ==
  [][\A hd \in Handlers : \A w \in Windows :
       LET k == handler'[hd].request.apiKey.s
       IN Resets(hd, w) =>
            /\ rateLimitStore'[k][w].resetTime > now
            /\ rateLimitStore'[k][w].resetTime =
                 rateLimitStore[k][w].resetTime + Duration(w)]_vars

\* C21 as amended: a reset at time now leaves the window's resetTime at
\* now + the window duration (60000, 3600000 or 86400000 ms), which is > now
\* and at least one window duration above its previous value.
C21_ResetFromNow ==
  [][\A hd \in Handlers : \A w \in Windows :
       LET k == handler'[hd].request.apiKey.s
           ms == IF w = "minute" THEN 60000
                 ELSE IF w = "hour" THEN 3600000 ELSE 86400000
       IN Resets(hd, w) =>
            /\ rateLimitStore'[k][w].resetTime = now + ms
            /\ rateLimitStore'[k][w].resetTime > now
            /\ rateLimitStore'[k][w].resetTime >=
                 rateLimitStore[k][w].resetTime + ms]_vars

\* A request of the Free key came 60 s after T0 to the entry of
\* LateMinuteStore and reset the hour window, 30 s after its resetTime, and
\* the minute window, 15 s after its resetTime.
C21_Witness ==
  \E hd \in Handlers :
    /\ Checked(hd)
    /\ KeyOf(hd) = FreeKey
    /\ now = T0 + 60000
    /\ handler[hd].entryAfter.day.resetTime = LateMinuteStore[FreeKey].day.resetTime
    /\ handler[hd].entryAfter.hour.resetTime = now + 3600000
    /\ handler[hd].entryAfter.hour.resetTime >
         LateMinuteStore[FreeKey].hour.resetTime + 3600000
    /\ handler[hd].entryAfter.minute.resetTime = now + 60000
    /\ handler[hd].entryAfter.minute.resetTime >
         LateMinuteStore[FreeKey].minute.resetTime + 60000

\* C22: a request to a handler that uses validateRequest ends in one response,
\* decided by the checks in the order key, rate limit, capability. A missing
\* key is answered 401 before checkRateLimit is called and before the body is
\* read; a request that checkRateLimit blocked is answered 429 before the body
\* is read, so whatever the body asks for (a Free key with a full window and
\* use_real_hardware = true included) the answer is 429 and not 403; a 403
\* is only given to a request that checkRateLimit allowed.
C22_CheckOrder ==
  \A hd \in Handlers :
    (/\ handler[hd].pc = "done"
     /\ handler[hd].request.path \in ValidatedPaths)
    =>
    /\ handler[hd].response.status \in {200, 400, 401, 403, 429, 500}
    /\ (Falsy(handler[hd].request.apiKey) \/ handler[hd].request.apiKey = Str(<<>>))
       =>
       /\ handler[hd].response.status = 401
       /\ ~handler[hd].validation.checked
       /\ handler[hd].body = NoBody
       /\ handler[hd].sim = "none"
    /\ (Checked(hd) /\ ~Allowed(hd))
       =>
       /\ handler[hd].response.status = 429
       /\ handler[hd].response.data.code = "RATE_LIMIT_EXCEEDED"
       /\ handler[hd].body = NoBody
       /\ handler[hd].sim = "none"
    /\ handler[hd].response.status = 403
       =>
       /\ Checked(hd)
       /\ Allowed(hd)
       /\ handler[hd].body.use_real_hardware
    /\ handler[hd].response.status \in {200, 400}
       =>
       /\ Checked(hd)
       /\ Allowed(hd)

\* The Free key, its minute window full, asked the bell-pair route: the
\* request was blocked and answered 429 without its body being read.
C22_Witness ==
  \E hd \in Handlers :
    /\ handler[hd].pc = "done"
    /\ handler[hd].request.apiKey = Str(FreeKey)
    /\ handler[hd].request.path = "/v1/quantum/bridge/bell-pair"
    /\ Checked(hd)
    /\ ~Allowed(hd)
    /\ handler[hd].entryAfter.minute.count = 2
    /\ handler[hd].response.status = 429
    /\ handler[hd].body = NoBody

\* C23: a simulator (simulateBellPair, simulateQKD, simulateCHSH,
\* simulateE91) runs for a request only after the request passed the key
\* check and the rate check and its body was read, and on bell-pair and BB84
\* only when the capability check did not refuse it; no simulator runs for a
\* request answered 401, 429 or 403; and the hardware field of a bell-pair or
\* BB84 result is the requested flag AND the tier's allowRealHardware.
C23_ExecutorAfterChecks ==
  \A hd \in Handlers :
    /\ handler[hd].sim # "none"
       =>
       /\ handler[hd].pc = "done"
       /\ handler[hd].request.path \in ValidatedPaths
       /\ ~Falsy(handler[hd].request.apiKey)
       /\ Checked(hd)
       /\ Allowed(hd)
       /\ handler[hd].validation.valid
       /\ handler[hd].body.json
       /\ handler[hd].response.status = 200
       /\ handler[hd].request.path \in GatedPaths =>
            (handler[hd].body.use_real_hardware =>
               handler[hd].validation.tier.allowRealHardware)
    /\ (handler[hd].pc = "done" /\ handler[hd].response.status \in {401, 403, 429})
       => handler[hd].sim = "none"
    /\ (/\ handler[hd].pc = "done"
        /\ handler[hd].request.path \in GatedPaths
        /\ handler[hd].response.status = 200)
       =>
       /\ handler[hd].sim \in {"simulateBellPair", "simulateQKD"}
       /\ handler[hd].response.data.hardware =
            (IF handler[hd].body.use_real_hardware
                /\ handler[hd].validation.tier.allowRealHardware
             THEN "true" ELSE "false")

\* A Pro key asked the bell-pair route for real hardware: simulateBellPair ran
\* and the result says hardware: true.
C23_Witness ==
  \E hd \in Handlers :
    /\ handler[hd].pc = "done"
    /\ handler[hd].request.apiKey = Str(ProKey)
    /\ handler[hd].request.path = "/v1/quantum/bridge/bell-pair"
    /\ handler[hd].body.use_real_hardware
    /\ handler[hd].sim = "simulateBellPair"
    /\ handler[hd].response.status = 200
    /\ handler[hd].response.data.hardware = "true"

\* C24: rateLimitStore changes only inside checkRateLimit. A step that changes
\* the store is the arrival of a request whose key validateApiKey accepted,
\* on a route that calls validateRequest, and it leaves the store that
\* checkRateLimit computes for that key, the entries of all other keys
\* untouched; a step in which a handler reads its body, runs the capability
\* check or a simulator and answers, and every step of a route without
\* validateRequest, leaves the store as it was.
C24_StoreOnlyInCheckRateLimit ==
  [][/\ rateLimitStore' # rateLimitStore =>
          \E hd \in Handlers :
            LET apiKey == handler'[hd].request.apiKey
            IN /\ Arrives(hd)
               /\ handler'[hd].request.path \in ValidatedPaths
               /\ handler'[hd].validation.checked
               /\ ~Falsy(apiKey)
               /\ rateLimitStore' =
                    checkRateLimit(rateLimitStore, apiKey.s,
                                   getApiKeyTier(apiKey), now).store
               /\ \A k \in DOMAIN rateLimitStore :
                    k # apiKey.s => /\ k \in DOMAIN rateLimitStore'
                                    /\ rateLimitStore'[k] = rateLimitStore[k]
     /\ \A hd \in Handlers :
          (handler'[hd] # handler[hd] /\ ~Arrives(hd)) =>
             rateLimitStore' = rateLimitStore
     /\ \A hd \in Handlers :
          (handler'[hd] # handler[hd] /\ ~handler'[hd].validation.checked) =>
             rateLimitStore' = rateLimitStore]_vars

\* An unknown key asked the bell-pair route for real hardware and was refused
\* with 403: the store holds for it the entry its rate check left, counts 1.
C24_Witness ==
  \E hd \in Handlers :
    /\ handler[hd].pc = "done"
    /\ handler[hd].request.apiKey = Str(OtherKey)
    /\ handler[hd].response.status = 403
    /\ OtherKey \in DOMAIN rateLimitStore
    /\ rateLimitStore[OtherKey] = handler[hd].entryAfter
    /\ \A w \in Windows : rateLimitStore[OtherKey][w].count = 1

\* C25: the first request ever seen for a key is not blocked: checkRateLimit
\* creates the key's entry with the three counts 0 and resetTime = now + the
\* window's duration, allows the request, and leaves the three counts at 1.
C25_FirstRequestAllowed ==
  [][\A hd \in Handlers :
       LET apiKey == handler'[hd].request.apiKey
       IN (/\ Arrives(hd)
           /\ handler'[hd].validation.checked
           /\ apiKey.s \notin DOMAIN rateLimitStore)
          =>
          /\ ~handler'[hd].validation.threw
          /\ handler'[hd].validation.rateLimit.allowed
          /\ apiKey.s \in DOMAIN rateLimitStore'
          /\ \A w \in Windows :
               /\ rateLimitStore'[apiKey.s][w].count = 1
               /\ rateLimitStore'[apiKey.s][w].resetTime = now + Duration(w)]_vars

\* The time at which the request of handler hd arrived, for a request that
\* opened its hour window (hour count 1): the window's resetTime less an hour.
OpenedHourAt(hd) == handler[hd].entryAfter.hour.resetTime - hourMs

\* C26 as stated, for the minute: the allowed requests of a finite-tier key
\* inside any interval of 60 s number at most requestsPerMinute. Taken over
\* the interval that begins with an allowed request of a handler whose
\* arrival time is known (it opened its hour window) and that contains now:
\* when the key's current minute window is a later one than the request's,
\* all requests counted in it lie inside the interval too, so the request and
\* that count together are at most requestsPerMinute.
C26_RollingMinute ==
  \A hd \in Handlers :
    (/\ Checked(hd)
     /\ Allowed(hd)
     /\ FiniteTier(handler[hd].validation.tier)
     /\ handler[hd].entryAfter.hour.count = 1
     /\ KeyOf(hd) \in DOMAIN rateLimitStore
     /\ rateLimitStore[KeyOf(hd)].minute.resetTime #
          handler[hd].entryAfter.minute.resetTime
     /\ now < OpenedHourAt(hd) + minuteMs)
    =>
    1 + rateLimitStore[KeyOf(hd)].minute.count
      <= handler[hd].validation.tier.requestsPerMinute

\* C26 as amended: the windows are fixed. Every allowed request of a
\* finite-tier key is counted in one window per kind, which contains its
\* arrival time, began at most one window duration before it and ends at the
\* window's resetTime; the request either opened the window (count 1) or
\* raised by 1 the count of the window the key already had; and the count of a
\* window, the number of allowed requests inside it, is at most the limit.
C26_FixedWindows ==
  [][\A hd \in Handlers : \A w \in Windows :
       LET k == handler'[hd].request.apiKey.s
           tier == handler'[hd].validation.tier
       IN (/\ Arrives(hd)
           /\ handler'[hd].validation.checked
           /\ ~handler'[hd].validation.threw
           /\ handler'[hd].validation.rateLimit.allowed
           /\ FiniteTier(tier))
          =>
          /\ rateLimitStore'[k][w].resetTime - Duration(w) <= now
          /\ now < rateLimitStore'[k][w].resetTime
          /\ rateLimitStore'[k][w].count >= 1
          /\ rateLimitStore'[k][w].count <= LimitOf(tier, w)
          /\ \/ /\ rateLimitStore'[k][w].count = 1
                /\ rateLimitStore'[k][w].resetTime = now + Duration(w)
             \/ /\ k \in DOMAIN rateLimitStore
                /\ rateLimitStore'[k][w].resetTime = rateLimitStore[k][w].resetTime
                /\ rateLimitStore'[k][w].count = rateLimitStore[k][w].count + 1]_vars

\* Three allowed requests of the Free key within 30 s, no window above its
\* limit: one at T0, the second of its minute window, that opened an hour
\* window, and two at T0 + 30 s in the next minute window.
C26_Witness ==
  \E hd \in Handlers :
    /\ Checked(hd)
    /\ Allowed(hd)
    /\ KeyOf(hd) = FreeKey
    /\ handler[hd].entryAfter.hour = Window(1, T0 + hourMs)
    /\ handler[hd].entryAfter.minute = Window(2, T0 + 30000)
    /\ now = T0 + 30000
    /\ rateLimitStore[FreeKey].minute = Window(2, T0 + 30000 + minuteMs)
    /\ rateLimitStore[FreeKey].hour.count = 3

\* The reset times a 429 can name in SpecLive: those of the full windows of
\* QuotaStores, and the end of a minute window opened at one of the clock's
\* hours.
LiveResetTimes ==
  {T0 + 30000, T0 + 2 * hourMs}
    \cup {T0 + i * hourMs + minuteMs : i \in 0..MaxLiveTicks}

\* A handler holds a request of key k that was blocked with reset time
\* resetTime, and the clock can still come to an hour at or after resetTime.
BlockedUntil(k, resetTime) ==
  /\ ticks < MaxLiveTicks
  /\ resetTime <= now + (MaxLiveTicks - ticks) * hourMs
  /\ \E hd \in Handlers :
       /\ Checked(hd)
       /\ ~Allowed(hd)
       /\ KeyOf(hd) = k
       /\ handler[hd].validation.rateLimit.resetTime = resetTime

\* A handler holds a request of key k that was allowed at or after time t: the
\* minute window that counts it began at or after t.
AllowedSince(k, t) ==
  \E hd \in Handlers :
    /\ Checked(hd)
    /\ Allowed(hd)
    /\ KeyOf(hd) = k
    /\ handler[hd].entryAfter.minute.resetTime - minuteMs >= t

\* C27: no key is locked out forever. A request that arrives when each
\* window of its key that is full has reached its resetTime is allowed; and
\* while time advances and the key keeps sending, a request blocked with
\* reset time R is followed by a request of the key that is allowed at or
\* after R. Every reset time a 429 names is one of LiveResetTimes.
C27_NotLockedOutForever ==
  /\ [][\A hd \in Handlers :
          LET k == handler'[hd].request.apiKey.s
              tier == handler'[hd].validation.tier
          IN (/\ Arrives(hd)
              /\ handler'[hd].validation.checked
              /\ ~handler'[hd].validation.threw
              /\ FiniteTier(tier)
              /\ k \in DOMAIN rateLimitStore
              /\ \A w \in Windows :
                   rateLimitStore[k][w].count >= LimitOf(tier, w) =>
                     now >= rateLimitStore[k][w].resetTime)
             => handler'[hd].validation.rateLimit.allowed]_vars
  /\ [](\A hd \in Handlers :
          (Checked(hd) /\ ~Allowed(hd)) =>
            handler[hd].validation.rateLimit.resetTime \in LiveResetTimes)
  /\ \A resetTime \in LiveResetTimes :
       BlockedUntil(FreeKey, resetTime) ~> AllowedSince(FreeKey, resetTime)

\* The Free key was blocked on its day window, full until T0 + 2 h, and its
\* handler still holds that 429; two hours later a request of the key was
\* allowed, the first of a new day, hour and minute window.
C27_Witness ==
  \E blocked \in Handlers, hd \in Handlers :
    /\ Checked(blocked)
    /\ ~Allowed(blocked)
    /\ KeyOf(blocked) = FreeKey
    /\ handler[blocked].validation.rateLimit.reason = Reason("day")
    /\ handler[blocked].validation.rateLimit.resetTime = T0 + 2 * hourMs
    /\ Checked(hd)
    /\ Allowed(hd)
    /\ KeyOf(hd) = FreeKey
    /\ now = T0 + 2 * hourMs
    /\ \A w \in Windows : handler[hd].entryAfter[w] = Window(1, now + Duration(w))

\* C28 as stated: a checkRateLimit call that returns allowed:false leaves the
\* key's entry as it was: the three counts and the three reset times.
C28_BlockedLeavesEntry ==
  [][\A hd \in Handlers :
       LET k == handler'[hd].request.apiKey.s
       IN (/\ Arrives(hd)
           /\ handler'[hd].validation.checked
           /\ ~handler'[hd].validation.threw
           /\ ~handler'[hd].validation.rateLimit.allowed)
          =>
          /\ k \in DOMAIN rateLimitStore
          /\ rateLimitStore'[k] = rateLimitStore[k]]_vars

\* C28 as amended: a checkRateLimit call at time now that returns
\* allowed:false increments nothing. A window whose resetTime lies after now
\* keeps its count and its resetTime; a window whose resetTime now has
\* reached is reset, to count 0 and resetTime = now + its duration, whether
\* or not it is the window that caused the block.
C28_BlockedOnlyResets ==
  [][\A hd \in Handlers :
       LET k == handler'[hd].request.apiKey.s
       IN (/\ Arrives(hd)
           /\ handler'[hd].validation.checked
           /\ ~handler'[hd].validation.threw
           /\ ~handler'[hd].validation.rateLimit.allowed)
          =>
          /\ k \in DOMAIN rateLimitStore
          /\ \A w \in Windows :
               IF now >= rateLimitStore[k][w].resetTime
               THEN rateLimitStore'[k][w] = Window(0, now + Duration(w))
               ELSE rateLimitStore'[k][w] = rateLimitStore[k][w]]_vars

\* The Free key of LateMinuteStore asked 30 s after T0: the minute window,
\* full for 15 s more, blocked the request, and the call reset the hour
\* window, whose time had come; the day window stands as it stood.
C28_Witness ==
  \E hd \in Handlers :
    /\ Checked(hd)
    /\ ~Allowed(hd)
    /\ KeyOf(hd) = FreeKey
    /\ now = T0 + 30000
    /\ handler[hd].validation.rateLimit.reason = Reason("minute")
    /\ handler[hd].entryAfter.minute = LateMinuteStore[FreeKey].minute
    /\ handler[hd].entryAfter.day = LateMinuteStore[FreeKey].day
    /\ handler[hd].entryAfter.hour = Window(0, now + hourMs)
    /\ rateLimitStore[FreeKey] = handler[hd].entryAfter

\* C29: quota is consumed at the rate check and never given back. A request
\* that passes checkRateLimit raises each of the key's three counts by exactly
\* 1 over the count the call found after the resets; the step in which its
\* handler answers, 403 and 400 included, leaves the store as it is; and every
\* 200, 403 or 400 response to a key of a finite tier, on a route that checks
\* the key, answers a request that was counted in a day window as its number
\* 1 .. requestsPerDay, two such responses of one day window bearing different
\* numbers, so that a day window holds at most requestsPerDay of them.
C29_QuotaNeverGivenBack ==
  /\ [][\A hd \in Handlers :
          LET k == handler'[hd].request.apiKey.s
          IN /\ (/\ Arrives(hd)
                 /\ handler'[hd].validation.checked
                 /\ ~handler'[hd].validation.threw
                 /\ handler'[hd].validation.rateLimit.allowed)
                =>
                \A w \in Windows :
                  rateLimitStore'[k][w].count = PostReset(k, w) + 1
             /\ (handler[hd].pc = "awaitJson" /\ handler'[hd].pc = "done")
                => rateLimitStore' = rateLimitStore]_vars
  /\ [](\A hd \in Handlers :
          (/\ handler[hd].pc = "done"
           /\ handler[hd].request.path \in ValidatedPaths \cup InlinePaths
           /\ handler[hd].response.status \in {200, 400, 403}
           /\ FiniteTier(getApiKeyTier(handler[hd].request.apiKey)))
          =>
          /\ Checked(hd)
          /\ Allowed(hd)
          /\ handler[hd].entryAfter.day.count >= 1
          /\ handler[hd].entryAfter.day.count
               <= getApiKeyTier(handler[hd].request.apiKey).requestsPerDay
          /\ \A other \in Handlers :
               (/\ other # hd
                /\ handler[other].pc = "done"
                /\ handler[other].request.path \in ValidatedPaths \cup InlinePaths
                /\ handler[other].response.status \in {200, 400, 403}
                /\ handler[other].request.apiKey = handler[hd].request.apiKey
                /\ handler[other].entryAfter.day.resetTime =
                     handler[hd].entryAfter.day.resetTime)
               => handler[other].entryAfter.day.count #
                    handler[hd].entryAfter.day.count)

\* C30 as stated: in every state, for every key, the counts are nested:
\* day.count >= hour.count >= minute.count.
C30_CountsNested ==
  \A k \in DOMAIN rateLimitStore :
    /\ rateLimitStore[k].day.count >= rateLimitStore[k].hour.count
    /\ rateLimitStore[k].hour.count >= rateLimitStore[k].minute.count

\* The time at which window w of key k began: its resetTime less its duration.
WindowStart(k, w) == rateLimitStore[k][w].resetTime - Duration(w)

\* C30 as amended: in every state, for every key, the count of a longer
\* window is >= the count of a shorter window whenever the longer window
\* began no later than the shorter one.
C30_NestedWhenOlder ==
  \A k \in DOMAIN rateLimitStore :
    \A pair \in {<<"day", "hour">>, <<"hour", "minute">>, <<"day", "minute">>} :
      WindowStart(k, pair[1]) <= WindowStart(k, pair[2]) =>
        rateLimitStore[k][pair[1]].count >= rateLimitStore[k][pair[2]].count

\* The Free key of HourEndStore asked at T0: the request, the second of its
\* minute window, opened a new hour window, which now counts 1 against the
\* minute's 2, while the day window, older than both, counts 51.
C30_Witness ==
  /\ FreeKey \in DOMAIN rateLimitStore
  /\ rateLimitStore[FreeKey].hour = Window(1, T0 + hourMs)
  /\ rateLimitStore[FreeKey].minute = Window(2, T0 + 30000)
  /\ rateLimitStore[FreeKey].day.count = 51
  /\ WindowStart(FreeKey, "hour") > WindowStart(FreeKey, "minute")
  /\ WindowStart(FreeKey, "day") <= WindowStart(FreeKey, "minute")

====
